---- MODULE Spec2Model ----
(***************************************************************************)
(* Interactive Session & Element-Mapping Engine                            *)
(* (server/src/services/interactiveTestBuilder.ts and its router).         *)
(*                                                                         *)
(* Strings that the code takes apart (URLs, element texts, names) are      *)
(* sequences of one-character strings; strings that it only compares are   *)
(* TLA+ strings.  Objects that the code shares by reference (page object   *)
(* models, element mappings) live in heaps and are named by their index.   *)
(***************************************************************************)
EXTENDS Integers, Sequences, FiniteSets, TLC

\* ------------------------------------------------------------------ bounds
MaxClock == 1        \* Date.now() takes the values 0..MaxClock
MaxSteps == 1        \* longest recordedSteps list explored
MaxElements == 2     \* element mappings ever allocated
MaxPoms == 2         \* page object models ever allocated
MaxNodes == 2        \* nodes of a live document
MaxBrowsers == 1     \* browsers ever launched
MaxVersion == 4      \* highest POM version explored

SessionIds == {"s1"}

\* --------------------------------------------------------------- sequences
Range(f) == {f[i] : i \in DOMAIN f}

SeqsUpTo(S, n) == UNION {[1..k -> S] : k \in 0..n}

Last(s) == s[Len(s)]

RECURSIVE Concat(_)
Concat(ss) == IF ss = <<>> THEN <<>> ELSE Head(ss) \o Concat(Tail(ss))

\* Array.prototype.slice(0, n)
Slice0(s, n) == SubSeq(s, 1, IF Len(s) < n THEN Len(s) ELSE n)

\* ----------------------------------------------------------------- strings
Digits == {"0", "1", "2", "3", "4", "5", "6", "7", "8", "9"}
LowerSeq == <<"a", "b", "c", "d", "e", "f", "g", "h", "i", "j", "k", "l", "m",
              "n", "o", "p", "q", "r", "s", "t", "u", "v", "w", "x", "y", "z">>
UpperSeq == <<"A", "B", "C", "D", "E", "F", "G", "H", "I", "J", "K", "L", "M",
              "N", "O", "P", "Q", "R", "S", "T", "U", "V", "W", "X", "Y", "Z">>
Lowers == Range(LowerSeq)
Uppers == Range(UpperSeq)

\* String.prototype.toUpperCase / toLowerCase on one character
ToUpperChar(c) ==
    IF c \in Lowers THEN UpperSeq[CHOOSE i \in DOMAIN LowerSeq : LowerSeq[i] = c] ELSE c
ToLowerChar(c) ==
    IF c \in Uppers THEN LowerSeq[CHOOSE i \in DOMAIN UpperSeq : UpperSeq[i] = c] ELSE c

ToLowerCase(s) == [i \in 1..Len(s) |-> ToLowerChar(s[i])]

\* ---------------------------------------------------------------------- URL
\* A URL is origin + pathname; the pathname is "/" + segments joined by "/".
Origin == <<"h", "t", "t", "p", ":", "/", "/", "x">>

SegItems == <<"i", "t", "e", "m", "s">>
Seg42 == <<"4", "2">>
Seg99 == <<"9", "9">>
SegEdit == <<"e", "d", "i", "t">>

RECURSIVE JoinPath(_)
JoinPath(segs) == IF segs = <<>> THEN <<>>
                  ELSE <<"/">> \o Head(segs) \o JoinPath(Tail(segs))

\* new URL(url).pathname
Pathname(segs) == IF segs = <<>> THEN <<"/">> ELSE JoinPath(segs)

\* the URL string of a path
Href(segs) == Origin \o Pathname(segs)

\* the paths of the URLs explored
Paths == { <<>>,
           <<SegItems, Seg42>>,
           <<SegItems, Seg99>>,
           <<SegItems, Seg42, SegEdit>> }
Urls == {Href(p) : p \in Paths}

\* the URLs the callers of a session navigate to
NavUrls == {Href(<<SegItems, Seg42>>)}

\* the inverse of Href on Urls: what new URL(url) parses
PathOf(url) == CHOOSE p \in Paths : Href(p) = url

\* the regular-expression token \d+ inside a pattern
DigitsPlus == "\\d+"

\* length of the run of digits of s that starts at position i
RECURSIVE DigitRun(_, _)
DigitRun(s, i) == IF i <= Len(s) /\ s[i] \in Digits THEN 1 + DigitRun(s, i + 1) ELSE 0

\* s.replace(/\/\d+/g, '/\\d+') from position i on
RECURSIVE ReplaceNumeric(_, _)
ReplaceNumeric(s, i) ==
    IF i > Len(s) THEN <<>>
    ELSE IF s[i] = "/" /\ DigitRun(s, i + 1) > 0
         THEN <<"/", DigitsPlus>> \o ReplaceNumeric(s, i + 1 + DigitRun(s, i + 1))
         ELSE <<s[i]>> \o ReplaceNumeric(s, i + 1)

\* a pattern that keeps the digits of the pathname
generateUrlPatternLiteral(url) == Pathname(PathOf(url))

generateUrlPattern(url) == ReplaceNumeric(Pathname(PathOf(url)), 1)

\* the pattern pat, from its token p on, matches str from position i on
RECURSIVE MatchFrom(_, _, _, _)
MatchFrom(pat, p, str, i) ==
    IF p > Len(pat) THEN TRUE
    ELSE IF pat[p] = DigitsPlus
         THEN \E k \in 1..DigitRun(str, i) : MatchFrom(pat, p + 1, str, i + k)
         ELSE i <= Len(str) /\ str[i] = pat[p] /\ MatchFrom(pat, p + 1, str, i + 1)

\* new RegExp(pat).test(str): an unanchored search
RegExpTest(pat, str) == \E i \in 1..(Len(str) + 1) : MatchFrom(pat, 1, str, i)

PageSuffix == <<"P", "a", "g", "e">>
HomeName == <<"h", "o", "m", "e">>

generatePageName(url) ==
    LET segs == PathOf(url)
        pathName == IF segs = <<>> THEN HomeName ELSE Last(segs)
    IN  <<ToUpperChar(Head(pathName))>> \o Tail(pathName) \o PageSuffix

\* --------------------------------------------------------------- live page
\* A DOM node as the extractor sees it.  "" is an absent attribute.
NodeGo ==
    [tag |-> "button", type |-> "", id |-> "go", testid |-> "", name |-> "",
     aria |-> "", role |-> "", classes |-> <<"btn">>, text |-> <<"G", "o">>,
     href |-> FALSE, onclick |-> FALSE, rendered |-> TRUE]
NodeField ==
    [tag |-> "input", type |-> "text", id |-> "", testid |-> "", name |-> "",
     aria |-> "email", role |-> "", classes |-> <<>>, text |-> <<>>,
     href |-> FALSE, onclick |-> FALSE, rendered |-> TRUE]
NodeLink ==
    [tag |-> "a", type |-> "", id |-> "", testid |-> "", name |-> "",
     aria |-> "", role |-> "link", classes |-> <<"btn">>,
     text |-> <<"H", "o", "m", "e">>,
     href |-> TRUE, onclick |-> FALSE, rendered |-> TRUE]
DomKinds == {NodeField}

\* a live document: its nodes in document order
Documents == SeqsUpTo(DomKinds, MaxNodes)

NoNode == [tag |-> "none"]

\* A selector is <<kind, value>>.
SelId(v) == <<"#", v>>
SelTestId(v) == <<"[data-testid=", v>>
SelName(v) == <<"[name=", v>>
SelText(t) == <<"text=", t>>
SelTag(t) == <<"tag", t>>
SelAria(v) == <<"[aria-label=", v>>
SelClass(c) == <<".", c>>
SelRole(v) == <<"[role=", v>>

\* the browser's selector engine: node n is located by selector sel
Matches(sel, n) ==
    CASE sel[1] = "#" -> n.id = sel[2]
      [] sel[1] = "[data-testid=" -> n.testid = sel[2]
      [] sel[1] = "[name=" -> n.name = sel[2]
      [] sel[1] = "text=" -> n.text = sel[2]
      [] sel[1] = "tag" -> n.tag = sel[2]
      [] sel[1] = "[aria-label=" -> n.aria = sel[2]
      [] sel[1] = "." -> sel[2] \in Range(n.classes)
      [] sel[1] = "[role=" -> n.role = sel[2]
      [] OTHER -> FALSE

\* page.$(selector): the first node of the document the selector locates
Locate(doc, sel) ==
    IF \E i \in DOMAIN doc : Matches(sel, doc[i])
    THEN doc[CHOOSE i \in DOMAIN doc :
                 Matches(sel, doc[i]) /\ \A j \in 1..(i - 1) : ~Matches(sel, doc[j])]
    ELSE NoNode

\* document.querySelector accepts CSS only: the text= engine is not CSS
IsCss(sel) == sel[1] # "text="

\* document.querySelectorAll(sel).length
CountMatches(doc, sel) == Cardinality({i \in DOMAIN doc : Matches(sel, doc[i])})

\* ------------------------------------------------------- selector resolver
MaxTextLen == 30

\* a resolver that ranks the test-identification attribute above the id
generateBestSelectorTestIdFirst(el) ==
    IF el.testid # "" THEN SelTestId(el.testid)
    ELSE IF el.id # "" THEN SelId(el.id)
    ELSE SelTag(el.tag)

generateBestSelector(el) ==
    IF el.id # "" THEN SelId(el.id)
    ELSE IF el.testid # "" THEN SelTestId(el.testid)
    ELSE IF el.name # "" THEN SelName(el.name)
    ELSE IF el.text # <<>> /\ Len(el.text) < MaxTextLen /\ el.tag \in {"button", "a"}
         THEN SelText(el.text)
    ELSE SelTag(el.tag)

\* detectType of extractAllElements
detectType(el) ==
    IF el.tag = "button" THEN "button"
    ELSE IF el.tag = "a" THEN "link"
    ELSE IF el.tag = "input" /\ el.type \in {"text", "email", "password"} THEN "input"
    ELSE IF el.tag = "input" /\ el.type = "checkbox" THEN "checkbox"
    ELSE IF el.tag = "input" /\ el.type = "radio" THEN "radio"
    ELSE IF el.tag = "select" THEN "dropdown"
    ELSE IF el.tag = "textarea" THEN "input"
    ELSE "other"

\* detectElementType of mapNewElement
detectElementType(tagName, type) ==
    IF tagName = "button" THEN "button"
    ELSE IF tagName = "a" THEN "link"
    ELSE IF tagName = "select" THEN "dropdown"
    ELSE IF tagName = "textarea" THEN "input"
    ELSE IF tagName = "input" /\ type = "checkbox" THEN "checkbox"
    ELSE IF tagName = "input" /\ type = "radio" THEN "radio"
    ELSE IF tagName = "input" /\ type \in {"text", "email", "password", "number", "tel", "url"}
         THEN "input"
    ELSE "other"

\* the classes of el that occur once in the document
RECURSIVE UniqueClasses(_, _)
UniqueClasses(doc, classes) ==
    IF classes = <<>> THEN <<>>
    ELSE (IF CountMatches(doc, SelClass(Head(classes))) = 1
          THEN <<SelClass(Head(classes))>> ELSE <<>>)
         \o UniqueClasses(doc, Tail(classes))

MaxAlternatives == 3

\* generateAlternativeSelectors, for the node el that the primary selector locates
AlternativesOf(doc, el) ==
    Slice0((IF el.text # <<>> /\ Len(el.text) < MaxTextLen
            THEN <<SelText(el.text)>> ELSE <<>>)
           \o (IF el.aria # "" THEN <<SelAria(el.aria)>> ELSE <<>>)
           \o UniqueClasses(doc, el.classes)
           \o (IF el.role # "" THEN <<SelRole(el.role)>> ELSE <<>>),
           MaxAlternatives)

generateAlternativeSelectors(doc, primarySelector) ==
    IF Locate(doc, primarySelector) = NoNode THEN <<>>
    ELSE AlternativesOf(doc, Locate(doc, primarySelector))

\* ------------------------------------------------------------ element names
TypeChars(type) ==
    CASE type = "button" -> <<"b", "u", "t", "t", "o", "n">>
      [] type = "link" -> <<"l", "i", "n", "k">>
      [] type = "input" -> <<"i", "n", "p", "u", "t">>
      [] type = "dropdown" -> <<"d", "r", "o", "p", "d", "o", "w", "n">>
      [] type = "checkbox" -> <<"c", "h", "e", "c", "k", "b", "o", "x">>
      [] type = "radio" -> <<"r", "a", "d", "i", "o">>
      [] OTHER -> <<"o", "t", "h", "e", "r">>

ElementSuffix == <<"_", "e", "l", "e", "m", "e", "n", "t">>

\* .replace(/[^a-z0-9]/g, '_')
Underscored(s) ==
    [i \in 1..Len(s) |-> IF s[i] \in Lowers \cup Digits THEN s[i] ELSE "_"]

\* .replace(/_+/g, '_')
RECURSIVE Collapse(_)
Collapse(s) ==
    IF Len(s) < 2 THEN s
    ELSE IF s[1] = "_" /\ s[2] = "_" THEN Collapse(Tail(s))
    ELSE <<Head(s)>> \o Collapse(Tail(s))

\* .replace(/^_|_$/g, '')
Trimmed(s) ==
    LET a == IF s # <<>> /\ Head(s) = "_" THEN Tail(s) ELSE s
    IN  IF a # <<>> /\ Last(a) = "_" THEN SubSeq(a, 1, Len(a) - 1) ELSE a

generateElementName(text, type) ==
    LET baseText == Trimmed(Collapse(Underscored(ToLowerCase(Slice0(text, MaxTextLen)))))
    IN  IF baseText # <<>> THEN baseText ELSE TypeChars(type) \o ElementSuffix

\* ---------------------------------------------------------------- extractor
\* the fixed list of interactive predicates, in query order
QueryCount == 7
Interactive(q, n) ==
    CASE q = 1 -> n.tag = "button"
      [] q = 2 -> n.tag = "a" /\ n.href
      [] q = 3 -> n.tag = "input" /\ n.type # "hidden"
      [] q = 4 -> n.tag = "textarea"
      [] q = 5 -> n.tag = "select"
      [] q = 6 -> n.role = "button"
      [] OTHER -> n.onclick

\* positions of doc that query q reaches first, in document order
RECURSIVE QueryHits(_, _, _)
QueryHits(doc, q, i) ==
    IF i > Len(doc) THEN <<>>
    ELSE (IF Interactive(q, doc[i]) /\ (\A p \in 1..(q - 1) : ~Interactive(p, doc[i]))
             /\ doc[i].rendered
          THEN <<doc[i]>> ELSE <<>>)
         \o QueryHits(doc, q, i + 1)

\* the raw records page.evaluate returns
RawElements(doc) == Concat([q \in 1..QueryCount |-> QueryHits(doc, q, 1)])

\* extractAllElements: one ElementMapping per raw record, stamped with the clock
extractAllElements(doc, t) ==
    LET raw == RawElements(doc)
    IN  [index \in 1..Len(raw) |->
           [id |-> <<"element", t, index - 1>>,
            name |-> generateElementName(raw[index].text, detectType(raw[index])),
            selector |-> generateBestSelector(raw[index]),
            alternativeSelectors |-> <<>>,
            type |-> detectType(raw[index]),
            attributes |-> raw[index],
            text |-> raw[index].text,
            lastVerified |-> t,
            isStable |-> TRUE]]

\* ------------------------------------------------------ insertion-ordered Map
\* A JavaScript Map is a sequence of [key, val] entries in insertion order.
MapHas(m, k) == \E i \in DOMAIN m : m[i].key = k

MapIndex(m, k) == CHOOSE i \in DOMAIN m : m[i].key = k

MapGet(m, k) == m[MapIndex(m, k)].val

\* Map.prototype.set: an existing key keeps its place and takes the new value
MapSet(m, k, v) ==
    IF MapHas(m, k)
    THEN [m EXCEPT ![MapIndex(m, k)] = [key |-> k, val |-> v]]
    ELSE Append(m, [key |-> k, val |-> v])

MapValues(m) == [i \in DOMAIN m |-> m[i].val]

MapKeys(m) == [i \in DOMAIN m |-> m[i].key]

\* ------------------------------------------------------------------- state
VARIABLES
    now,                   \* Date.now()
    githubRepoPath,        \* constructor argument: "" when not given
    sessions,              \* Map<string, InteractiveSession>, as a function
    pageObjectRepository,  \* Map<string, PageObjectModel>: key -> index in poms
    poms,                  \* the PageObjectModel objects ever created
    elements,              \* the ElementMapping objects ever created
    browsers,              \* the browsers ever launched, with context and page
    history,               \* per session id, what has been called so far
    calls,                 \* per session id, the navigateAndAnalyze that awaits
    users,                 \* the rows of the users table, by id
    issued                 \* the JWTs the auth controller has signed

vars == <<now, githubRepoPath, sessions, pageObjectRepository, poms, elements,
          browsers, history, calls, users, issued>>

\* the state of the program, without the history variable
program == <<now, githubRepoPath, sessions, pageObjectRepository, poms, elements,
             browsers>>

NoPom == 0
NoId == <<>>
NoName == <<>>
NoSelector == <<>>
NoValue == <<>>
NoTrace == <<>>
EmptyUrl == <<>>

SessionNotFound == "Session not found"
ElementNotFound == "Element not found"
DriverError == "driver error"
IoError == "io error"

Live == DOMAIN sessions

\* --------------------------------------------------------------- the router
\* try { ... res.json({success: true}) } catch { res.status(500).json({error}) }
RouterResponse(thrown, failure) ==
    IF thrown = "" THEN [status |-> 200, success |-> TRUE, error |-> ""]
    ELSE [status |-> 500, success |-> FALSE, error |-> failure]

\* ------------------------------------------------------------------ history
\* window:    "open" from startRecording to the next stopRecording, then "closed"
\* performed: qualifying actions (click and fill calls that returned a step,
\*            navigation events) since the window was opened, while it is open
\* idle:      a qualifying action was performed since recording was disarmed
\* resets:    the steps the startRecording that opened the window discarded:
\*            "none", or "armed" when the session was recording, else "idle"
\* ended:     endSession has completed for the id and it was not started since
\* rejected:  a call was made with the id after endSession completed
NoHistory ==
    [window |-> "none", performed |-> 0, idle |-> FALSE, resets |-> "none",
     ended |-> FALSE, rejected |-> FALSE]

\* a qualifying action was performed on session s of ss
Performed(h, ss, s) ==
    IF s \notin DOMAIN ss THEN h
    ELSE [h EXCEPT ![s].performed = IF h[s].window = "open" THEN @ + 1 ELSE @,
                   ![s].idle = IF ss[s].isRecording THEN @ ELSE TRUE]

\* a call with an id that is not in the collection
Rejected(h, s) == IF h[s].ended THEN [h EXCEPT ![s].rejected = TRUE] ELSE h

Init ==
    /\ now = 0
    /\ githubRepoPath = ""
    /\ sessions = <<>>
    /\ pageObjectRepository = <<>>
    /\ poms = <<>>
    /\ elements = <<>>
    /\ browsers = <<>>
    /\ history = [s \in SessionIds |-> NoHistory]
    /\ calls = <<>>
    /\ users = <<>>
    /\ issued = {}

\* the clock advances between calls
Tick ==
    /\ now < MaxClock
    /\ now' = now + 1
    /\ UNCHANGED <<githubRepoPath, calls, users, issued, sessions, pageObjectRepository, poms, elements,
                   browsers, history>>

\* --------------------------------------------------------------- startSession
NewSession(b) ==
    [browser |-> b, currentUrl |-> EmptyUrl, currentPageObject |-> NoPom,
     recordedSteps |-> <<>>, elementMappings |-> <<>>, isRecording |-> FALSE,
     traceFile |-> NoTrace]

\* what chromium.launch .. context.newPage leave behind when the step failAt fails
LaunchedBrowser(sid, failAt) ==
    [sessionId |-> sid,
     browser |-> "open",
     context |-> IF failAt = "newContext" THEN "none" ELSE "open",
     tracing |-> failAt \notin {"newContext", "tracingStart"},
     page |-> IF failAt = "none" THEN "open" ELSE "none",
     url |-> EmptyUrl,
     exposed |-> FALSE]

StartFailures == {"none", "launch", "newContext", "tracingStart", "newPage"}

StartSession(s, failAt) ==
    /\ Len(browsers) < MaxBrowsers
    /\ browsers' = IF failAt = "launch" THEN browsers
                   ELSE Append(browsers, LaunchedBrowser(s, failAt))
    /\ sessions' = IF failAt = "none"
                   THEN [x \in Live \cup {s} |->
                           IF x = s THEN NewSession(Len(browsers) + 1) ELSE sessions[x]]
                   ELSE sessions
    /\ history' = IF failAt = "none" THEN [history EXCEPT ![s] = NoHistory] ELSE history
    /\ UNCHANGED <<now, githubRepoPath, calls, users, issued, pageObjectRepository, poms, elements>>

\* ------------------------------------------------------------ code synthesis
ElementWord == <<"e", "l", "e", "m", "e", "n", "t">>

\* str.split('_')
RECURSIVE SplitUnderscore(_, _)
SplitUnderscore(s, word) ==
    IF s = <<>> THEN <<word>>
    ELSE IF Head(s) = "_" THEN <<word>> \o SplitUnderscore(Tail(s), <<>>)
    ELSE SplitUnderscore(Tail(s), Append(word, Head(s)))

Capitalized(word) ==
    IF word = <<>> THEN <<>> ELSE <<ToUpperChar(Head(word))>> \o Tail(word)

toPascalCase(str) ==
    LET words == SplitUnderscore(str, <<>>)
    IN  Concat([i \in DOMAIN words |-> Capitalized(words[i])])

\* .replace(/Page$/, '')
WithoutPageSuffix(s) ==
    IF Len(s) >= Len(PageSuffix)
       /\ SubSeq(s, Len(s) - Len(PageSuffix) + 1, Len(s)) = PageSuffix
    THEN SubSeq(s, 1, Len(s) - Len(PageSuffix))
    ELSE s

toCamelCase(str) ==
    IF str = <<>> THEN <<>>
    ELSE <<ToLowerChar(Head(str))>> \o WithoutPageSuffix(Tail(str))

generateStepCode(step, pom) ==
    LET elementName == IF step.elementName # NoName THEN step.elementName ELSE ElementWord
    IN  CASE step.action = "click" ->
               IF pom # NoPom /\ step.elementId # NoId
               THEN <<"pom.click", toCamelCase(poms[pom].name), toPascalCase(elementName)>>
               ELSE <<"page.click", step.selector>>
          [] step.action = "fill" ->
               IF pom # NoPom /\ step.elementId # NoId
               THEN <<"pom.fill", toCamelCase(poms[pom].name), toPascalCase(elementName),
                      step.value>>
               ELSE <<"page.fill", step.selector, step.value>>
          [] step.action = "navigate" -> <<"page.goto", step.value>>
          [] step.action = "assert" -> <<"// Assertion">>
          [] OTHER -> <<"//", step.action, step.selector>>

TestNameActions == 3

generateTestName(steps) ==
    Slice0([i \in DOMAIN steps |-> steps[i].action], TestNameActions)

generateTestCode(session) ==
    LET steps == session.recordedSteps
        pom == session.currentPageObject
    IN  [import |-> IF pom # NoPom THEN poms[pom].name ELSE <<>>,
         test |-> generateTestName(steps),
         body |-> [i \in DOMAIN steps |-> generateStepCode(steps[i], pom)]]

\* ------------------------------------------------------------------ recorder
\* what startRecording throws
StartRecordingThrown(s) == IF s \notin Live THEN SessionNotFound ELSE ""

\* a startRecording that keeps the steps it finds
ArmedKeepingSteps(session, s, t) ==
    [session EXCEPT !.isRecording = TRUE,
                    !.traceFile = <<"trace", s, t>>]

\* startRecording's assignments to the session
Armed(session, s, t) ==
    [session EXCEPT !.isRecording = TRUE,
                    !.recordedSteps = <<>>,
                    !.traceFile = <<"trace", s, t>>]

StartRecording(s) ==
    /\ IF StartRecordingThrown(s) # ""
       THEN /\ history' = Rejected(history, s)
            /\ UNCHANGED sessions
       ELSE /\ sessions' = [sessions EXCEPT ![s] = Armed(@, s, now)]
            /\ history' = [history EXCEPT
                             ![s].window = "open",
                             ![s].performed = 0,
                             ![s].idle = FALSE,
                             ![s].resets =
                                 IF sessions[s].recordedSteps = <<>> THEN "none"
                                 ELSE IF sessions[s].isRecording THEN "armed"
                                 ELSE "idle"]
    /\ UNCHANGED <<now, githubRepoPath, calls, users, issued, pageObjectRepository, poms, elements, browsers>>

\* context.tracing.stop resolves only while a trace is running
TracingStops(b) == browsers[b].tracing

\* what stopRecording throws
StopRecordingThrown(s) ==
    IF s \notin Live THEN SessionNotFound
    ELSE IF sessions[s].traceFile # NoTrace /\ ~TracingStops(sessions[s].browser)
         THEN DriverError
         ELSE ""

\* what stopRecording returns when it does not throw
StopRecordingReturns(s) == generateTestCode(sessions[s])

StopRecording(s) ==
    /\ IF s \notin Live
       THEN /\ history' = Rejected(history, s)
            /\ UNCHANGED <<sessions, browsers>>
       ELSE LET b == sessions[s].browser
            IN  /\ sessions' = [sessions EXCEPT ![s].isRecording = FALSE]
                /\ browsers' = IF sessions[s].traceFile # NoTrace /\ TracingStops(b)
                               THEN [browsers EXCEPT ![b].tracing = FALSE]
                               ELSE browsers
                /\ history' = [history EXCEPT
                                 ![s].window = IF @ = "open" THEN "closed" ELSE @,
                                 ![s].resets = "none"]
    /\ UNCHANGED <<now, githubRepoPath, calls, users, issued, pageObjectRepository, poms, elements>>

\* ---------------------------------------------------------------- endSession
\* the tracing.stop of endSession rejects: nothing after it runs
EndSessionThrown(s) ==
    IF s \in Live /\ sessions[s].traceFile # NoTrace /\ ~TracingStops(sessions[s].browser)
    THEN DriverError
    ELSE ""

\* DELETE /sessions/:sessionId
EndSessionResponse(s) == RouterResponse(EndSessionThrown(s), "Failed to end session")

Closed(b) == [browsers[b] EXCEPT !.page = "closed", !.context = "closed",
                                 !.browser = "closed", !.tracing = FALSE]

\* an endSession that closes the browser and keeps the session in the collection
EndSessionKeepingEntry(s) ==
    IF s \notin Live \/ EndSessionThrown(s) # ""
    THEN [sessions |-> sessions, browsers |-> browsers]
    ELSE [sessions |-> sessions,
          browsers |-> [browsers EXCEPT ![sessions[s].browser] = Closed(sessions[s].browser)]]

\* the sessions and browsers that endSession(s) leaves
EndSessionOutcome(s) ==
    IF s \notin Live \/ EndSessionThrown(s) # ""
    THEN [sessions |-> sessions, browsers |-> browsers]
    ELSE [sessions |-> [x \in Live \ {s} |-> sessions[x]],
          browsers |-> [browsers EXCEPT ![sessions[s].browser] = Closed(sessions[s].browser)]]

EndSession(s) ==
    /\ sessions' = EndSessionOutcome(s).sessions
    /\ browsers' = EndSessionOutcome(s).browsers
    /\ history' = IF s \notin Live THEN Rejected(history, s)
                  ELSE IF EndSessionThrown(s) # "" THEN history
                  ELSE [history EXCEPT ![s] = [NoHistory EXCEPT !.ended = TRUE]]
    /\ UNCHANGED <<now, githubRepoPath, calls, users, issued, pageObjectRepository, poms, elements>>

\* --------------------------------------------------------- page object store
findPageObjectByUrl(url) ==
    LET hit(i) == LET pom == poms[pageObjectRepository[i].val]
                  IN  pom.url = url \/ RegExpTest(pom.urlPattern, url)
    IN  IF \E i \in DOMAIN pageObjectRepository : hit(i)
        THEN pageObjectRepository[CHOOSE i \in DOMAIN pageObjectRepository :
                                      hit(i) /\ \A j \in 1..(i - 1) : ~hit(j)].val
        ELSE NoPom

\* createPageObjectModel: the new object; its elements become refs first..
createPageObjectModel(url, fresh, first, t) ==
    [id |-> <<"pom", t>>,
     name |-> generatePageName(url),
     url |-> url,
     urlPattern |-> generateUrlPattern(url),
     elements |-> [i \in DOMAIN fresh |-> first + i - 1],
     lastUpdated |-> t,
     version |-> 1,
     screenshots |-> <<"screenshot", t>>]

\* existing.elements.forEach(el => mergedElements.set(el.selector, el))
RECURSIVE KeyBySelector(_, _, _)
KeyBySelector(merged, refs, heap) ==
    IF refs = <<>> THEN merged
    ELSE KeyBySelector(MapSet(merged, heap[Head(refs)].selector, Head(refs)),
                       Tail(refs), heap)

\* a merge that adds every fresh element, whether or not its selector is known
RECURSIVE MergeFreshAppending(_, _, _, _)
MergeFreshAppending(acc, fresh, i, t) ==
    IF i > Len(fresh) THEN acc
    ELSE MergeFreshAppending([merged |-> Append(acc.merged,
                                               [key |-> fresh[i].selector,
                                                val |-> Len(acc.heap) + 1]),
                              heap |-> Append(acc.heap, fresh[i])],
                             fresh, i + 1, t)

\* currentElements.forEach: refresh the element the selector already names,
\* else add the fresh one.  acc = [merged, heap]
RECURSIVE MergeFresh(_, _, _, _)
MergeFresh(acc, fresh, i, t) ==
    IF i > Len(fresh) THEN acc
    ELSE IF MapHas(acc.merged, fresh[i].selector)
         THEN MergeFresh([acc EXCEPT !.heap[MapGet(acc.merged, fresh[i].selector)] =
                                        [@ EXCEPT !.lastVerified = t, !.isStable = TRUE]],
                         fresh, i + 1, t)
         ELSE MergeFresh([merged |-> MapSet(acc.merged, fresh[i].selector,
                                            Len(acc.heap) + 1),
                          heap |-> Append(acc.heap, fresh[i])],
                         fresh, i + 1, t)

NextVersion(v) == v + 1

\* updatePageObjectModel up to the save: the POM and the element heap after it
updatePageObjectModel(existing, fresh, heap, t) ==
    LET acc == MergeFresh([merged |-> KeyBySelector(<<>>, existing.elements, heap),
                           heap |-> heap], fresh, 1, t)
    IN  [pom |-> [existing EXCEPT !.elements = MapValues(acc.merged),
                                  !.lastUpdated = t,
                                  !.version = NextVersion(@)],
         heap |-> acc.heap]

\* loadPageObjectRepository: pageObjectRepository.set(pom.id, pom) for every
\* file of the page-objects directory, in readdir order; file i holds poms[i]
RECURSIVE LoadFiles(_, _, _)
LoadFiles(repo, files, i) ==
    IF i > Len(files) THEN repo
    ELSE LoadFiles(MapSet(repo, files[i].id, i), files, i + 1)

loadPageObjectRepository(path, files) ==
    IF path = "" THEN <<>> ELSE LoadFiles(<<>>, files, 1)

\* session.elementMappings.clear(); pom.elements.forEach(el => set(el.id, el))
RECURSIVE MappingsOf(_, _, _)
MappingsOf(m, refs, heap) ==
    IF refs = <<>> THEN m
    ELSE MappingsOf(MapSet(m, heap[Head(refs)].id, Head(refs)), Tail(refs), heap)

\* ------------------------------------------------------------------- steps
Step(action, elementId, elementName, selector, value, t) ==
    [id |-> <<"step", t>>, action |-> action, elementId |-> elementId,
     elementName |-> elementName, selector |-> selector, value |-> value,
     screenshot |-> <<"screenshot", t>>, timestamp |-> t]

\* a push that does not look at isRecording
RecordAlways(ss, s, step) ==
    [ss EXCEPT ![s].recordedSteps = Append(@, step)]

\* if (session.isRecording) session.recordedSteps.push(step)
Record(ss, s, step) ==
    IF ss[s].isRecording
    THEN [ss EXCEPT ![s].recordedSteps = Append(@, step)]
    ELSE ss

NavigateStep(url, t) ==
    [id |-> <<"step", t>>, action |-> "navigate", elementId |-> NoId,
     elementName |-> NoName, selector |-> NoSelector, value |-> url,
     screenshot |-> <<>>, timestamp |-> t]

\* the framenavigated listener of page b, registered by setupPageListeners
OnFrameNavigated(ss, b, url, t) ==
    LET sid == browsers[b].sessionId
    IN  IF sid \in DOMAIN ss THEN Record(ss, sid, NavigateStep(url, t)) ELSE ss

\* the step lists and the counts of the next state stay within MaxSteps
StepRoom ==
    /\ \A s \in DOMAIN sessions' : Len(sessions'[s].recordedSteps) <= MaxSteps
    /\ \A s \in SessionIds : history'[s].performed <= MaxSteps

\* ------------------------------------------------------- navigateAndAnalyze
NavigateFailures == {"none", "goto", "inject", "extract", "save"}

\* what navigateAndAnalyze throws when its step failAt fails
NavigateThrown(s, failAt) ==
    IF s \notin Live THEN SessionNotFound
    ELSE IF failAt = "none" THEN ""
    ELSE IF failAt = "save" THEN IoError
    ELSE DriverError

\* lines 143-152: the POM found for url is merged with the fresh extraction,
\* or a new one is created and stored.  [pom, heap, objects, repository]
Analyzed(url, fresh, found, t) ==
    IF found = NoPom
    THEN [pom |-> Len(poms) + 1,
          heap |-> elements \o fresh,
          objects |-> Append(poms, createPageObjectModel(url, fresh, Len(elements) + 1, t)),
          repository |-> MapSet(pageObjectRepository, <<"pom", t>>, Len(poms) + 1)]
    ELSE LET updated == updatePageObjectModel(poms[found], fresh, elements, t)
         IN  [pom |-> found,
              heap |-> updated.heap,
              objects |-> [poms EXCEPT ![found] = updated.pom],
              repository |-> pageObjectRepository]

NavigateAndAnalyze(s, url, doc, failAt) ==
    /\ IF s \notin Live
       THEN /\ failAt = "none" /\ doc = <<>>
            /\ history' = Rejected(history, s)
            /\ UNCHANGED <<sessions, pageObjectRepository, poms, elements, browsers>>
       ELSE LET b == sessions[s].browser
                loaded == failAt # "goto"
                injected == failAt \notin {"goto", "inject"}
                analyzed == failAt \notin {"goto", "inject", "extract"}
                afterGoto == IF loaded
                             THEN OnFrameNavigated(sessions, b, url, now) ELSE sessions
            IN  /\ (failAt \in {"goto", "inject"}) => doc = <<>>
                /\ \E found \in {findPageObjectByUrl(url)} :
                      /\ (failAt = "save") => (found # NoPom /\ githubRepoPath # "")
                      /\ \E a \in {Analyzed(url, extractAllElements(doc, now), found, now)} :
                            /\ analyzed => /\ Len(a.heap) <= MaxElements
                                           /\ Len(a.objects) <= MaxPoms
                                           /\ \A i \in DOMAIN a.objects :
                                                 a.objects[i].version <= MaxVersion
                            /\ elements' = IF analyzed THEN a.heap ELSE elements
                            /\ poms' = IF analyzed THEN a.objects ELSE poms
                            /\ pageObjectRepository' =
                                   IF analyzed THEN a.repository ELSE pageObjectRepository
                            /\ sessions' =
                                   [afterGoto EXCEPT
                                      ![s].currentUrl = IF loaded THEN url ELSE @,
                                      ![s].currentPageObject =
                                          IF failAt = "none" THEN a.pom ELSE @,
                                      ![s].elementMappings =
                                          IF failAt = "none"
                                          THEN MappingsOf(<<>>, a.objects[a.pom].elements,
                                                          a.heap)
                                          ELSE @]
                /\ browsers' = [browsers EXCEPT
                                  ![b].url = IF loaded THEN url ELSE @,
                                  ![b].exposed = IF injected THEN TRUE ELSE @]
                /\ history' = IF loaded THEN Performed(history, sessions, s) ELSE history
    /\ StepRoom
    /\ UNCHANGED <<now, githubRepoPath, calls, users, issued>>

\* ------------------------------------------------------------- mapNewElement
\* The state after mapNewElement(session s, selector, name) against the live
\* document doc: [thrown, ss, poms, heap, id].
mapNewElement(ss, s, selector, name, doc, saveOk) ==
    LET node == Locate(doc, selector)
        ref == Len(elements) + 1
        cpo == ss[s].currentPageObject
        mapping == [id |-> <<"element", now>>,
                    name |-> name,
                    selector |-> selector,
                    alternativeSelectors |-> generateAlternativeSelectors(doc, selector),
                    type |-> detectElementType(node.tag, node.type),
                    attributes |-> node,
                    text |-> node.text,
                    lastVerified |-> now,
                    isStable |-> TRUE]
        unchanged(err) == [thrown |-> err, ss |-> ss, poms |-> poms, heap |-> elements,
                           id |-> NoId]
    IN  IF node = NoNode THEN unchanged(ElementNotFound)
        ELSE IF ~IsCss(selector) THEN unchanged(DriverError)
        ELSE [thrown |-> IF cpo # NoPom /\ ~saveOk THEN IoError ELSE "",
              ss |-> [ss EXCEPT ![s].elementMappings = MapSet(@, mapping.id, ref)],
              poms |-> IF cpo = NoPom THEN poms
                       ELSE [poms EXCEPT ![cpo].elements = Append(@, ref),
                                         ![cpo].lastUpdated = now,
                                         ![cpo].version = @ + 1],
              heap |-> Append(elements, mapping),
              id |-> mapping.id]

\* savePageObjectModel can fail only when a repository path is configured
SaveOutcomes == IF githubRepoPath = "" THEN {TRUE} ELSE BOOLEAN

findElementIdBySelector(session, selector) ==
    LET m == session.elementMappings
        hit(i) == \/ elements[m[i].val].selector = selector
                  \/ selector \in Range(elements[m[i].val].alternativeSelectors)
    IN  IF \E i \in DOMAIN m : hit(i)
        THEN m[CHOOSE i \in DOMAIN m : hit(i) /\ \A j \in 1..(i - 1) : ~hit(j)].key
        ELSE NoId

\* ------------------------------------------------- clickElement / fillElement
CallerSelectors == {SelTag("input")}
CallerNames == {NoName, <<"s", "u", "b", "m", "i", "t">>}
FillValue == <<"v">>

\* clickElement and fillElement map the element when it is not mapped yet
MapsOnTheFly(s, selector, elementName) ==
    findElementIdBySelector(sessions[s], selector) = NoId /\ elementName # NoName

\* what clickElement and fillElement throw.  doc is the live document when the
\* action is performed, after the one when the element is mapped; shotOk is the
\* outcome of captureScreenshot.
ActThrown(s, selector, elementName, doc, after, saveOk, shotOk) ==
    IF s \notin Live THEN SessionNotFound
    ELSE LET mapped == mapNewElement(sessions, s, selector, elementName, after, saveOk)
         IN  IF Locate(doc, selector) = NoNode THEN DriverError
             ELSE IF MapsOnTheFly(s, selector, elementName) /\ mapped.thrown # ""
                  THEN mapped.thrown
             ELSE IF ~shotOk THEN DriverError
             ELSE ""

\* the step clickElement and fillElement return when they do not throw
ActReturns(s, action, selector, value, elementName, after, saveOk) ==
    LET mapped == mapNewElement(sessions, s, selector, elementName, after, saveOk)
    IN  Step(action,
             IF MapsOnTheFly(s, selector, elementName) THEN mapped.id
             ELSE findElementIdBySelector(sessions[s], selector),
             elementName, selector, value, now)

\* clickElement (action = "click") and fillElement (action = "fill")
ActOnElement(s, action, selector, value, elementName, doc, after, saveOk, shotOk) ==
    /\ IF s \notin Live
       THEN /\ doc = <<>> /\ after = <<>> /\ saveOk /\ shotOk
            /\ history' = Rejected(history, s)
            /\ UNCHANGED <<sessions, poms, elements>>
       ELSE LET acted == Locate(doc, selector) # NoNode
            IN  /\ Len(elements) < MaxElements
                /\ (~acted) => (after = <<>> /\ saveOk /\ shotOk)
                /\ \E maps \in {MapsOnTheFly(s, selector, elementName)} :
                      /\ (acted /\ ~maps) => (after = <<>> /\ saveOk)
                      /\ (acted /\ maps) => (after \in {doc, <<>>})
                      /\ \E mapped \in {mapNewElement(sessions, s, selector, elementName,
                                                      after, saveOk)},
                            thrown \in {ActThrown(s, selector, elementName, doc, after,
                                                  saveOk, shotOk)} :
                            /\ (acted /\ maps /\ mapped.thrown # "") => shotOk
                            /\ poms' = IF acted /\ maps THEN mapped.poms ELSE poms
                            /\ elements' = IF acted /\ maps THEN mapped.heap ELSE elements
                            /\ sessions' =
                                   IF thrown = ""
                                   THEN Record(IF acted /\ maps THEN mapped.ss ELSE sessions,
                                               s,
                                               ActReturns(s, action, selector, value,
                                                          elementName, after, saveOk))
                                   ELSE IF acted /\ maps THEN mapped.ss ELSE sessions
                            /\ history' = IF thrown = ""
                                          THEN Performed(history, sessions, s)
                                          ELSE history
    /\ StepRoom
    /\ UNCHANGED <<now, githubRepoPath, calls, users, issued, pageObjectRepository, browsers>>

ClickElement(s, selector, elementName, doc, after, saveOk, shotOk) ==
    ActOnElement(s, "click", selector, NoValue, elementName, doc, after, saveOk, shotOk)

FillElement(s, selector, elementName, doc, after, saveOk, shotOk) ==
    ActOnElement(s, "fill", selector, FillValue, elementName, doc, after, saveOk, shotOk)

\* POST /sessions/:sessionId/elements/map
MapElementResponse(s, selector, name, doc, saveOk) ==
    IF s \notin Live
    THEN [status |-> 404, success |-> FALSE, error |-> SessionNotFound]
    ELSE RouterResponse(mapNewElement(sessions, s, selector, name, doc, saveOk).thrown,
                        "Failed to map element")

MapElement(s, selector, name, doc, saveOk) ==
    /\ IF s \notin Live
       THEN /\ doc = <<>> /\ saveOk
            /\ history' = Rejected(history, s)
            /\ UNCHANGED <<sessions, poms, elements>>
       ELSE LET mapped == mapNewElement(sessions, s, selector, name, doc, saveOk)
            IN  /\ Len(elements) < MaxElements
                /\ (mapped.id = NoId) => saveOk
                /\ sessions' = mapped.ss
                /\ poms' = mapped.poms
                /\ elements' = mapped.heap
                /\ UNCHANGED history
    /\ UNCHANGED <<now, githubRepoPath, calls, users, issued, pageObjectRepository, browsers>>

\* --------------------------------------------------- verifyElementStability
\* an id that no clock value produces
UnknownElementId == <<"element", -1>>

\* the last alternative selector that locates a node of doc, or NoSelector
LastWorking(alts, doc) ==
    IF \E i \in DOMAIN alts : Locate(doc, alts[i]) # NoNode
    THEN alts[CHOOSE i \in DOMAIN alts :
                  /\ Locate(doc, alts[i]) # NoNode
                  /\ \A j \in (i + 1)..Len(alts) : Locate(doc, alts[j]) = NoNode]
    ELSE NoSelector

\* the first alternative selector that locates a node of doc, or NoSelector
FirstWorking(alts, doc) ==
    IF \E i \in DOMAIN alts : Locate(doc, alts[i]) # NoNode
    THEN alts[CHOOSE i \in DOMAIN alts :
                  /\ Locate(doc, alts[i]) # NoNode
                  /\ \A j \in 1..(i - 1) : Locate(doc, alts[j]) = NoNode]
    ELSE NoSelector

\* the element ids a caller can have learnt from session s
KnownElementIds(s) ==
    IF s \in Live THEN Range(MapKeys(sessions[s].elementMappings)) ELSE {}

\* what verifyElementStability throws
VerifyThrown(s) == IF s \notin Live THEN SessionNotFound ELSE ""

\* what verifyElementStability returns when it does not throw
VerifyReturns(s, elementId, doc) ==
    /\ MapHas(sessions[s].elementMappings, elementId)
    /\ LET element == elements[MapGet(sessions[s].elementMappings, elementId)]
       IN  \/ Locate(doc, element.selector) # NoNode
           \/ FirstWorking(element.alternativeSelectors, doc) # NoSelector

\* POST /sessions/:sessionId/elements/:elementId/verify
VerifyResponse(s, elementId, doc) ==
    IF VerifyThrown(s) # ""
    THEN [status |-> 500, success |-> FALSE, error |-> "Failed to verify element"]
    ELSE [status |-> 200, success |-> TRUE, isStable |-> VerifyReturns(s, elementId, doc),
          message |-> IF VerifyReturns(s, elementId, doc) THEN "Element is stable"
                      ELSE "Element selector needs update"]

VerifyElementStability(s, elementId, doc) ==
    /\ IF s \notin Live
       THEN /\ doc = <<>> /\ elementId = UnknownElementId
            /\ history' = Rejected(history, s)
            /\ UNCHANGED elements
       ELSE /\ UNCHANGED history
            /\ IF ~MapHas(sessions[s].elementMappings, elementId)
               THEN /\ doc = <<>>
                    /\ UNCHANGED elements
               ELSE LET ref == MapGet(sessions[s].elementMappings, elementId)
                        element == elements[ref]
                        alt == FirstWorking(element.alternativeSelectors, doc)
                    IN  IF Locate(doc, element.selector) = NoNode /\ alt # NoSelector
                        THEN elements' = [elements EXCEPT ![ref].selector = alt,
                                                          ![ref].lastVerified = now]
                        ELSE UNCHANGED elements
    /\ UNCHANGED <<now, githubRepoPath, calls, users, issued, sessions, pageObjectRepository, poms, browsers>>

\* ------------------------------------------------------------- previewClick
\* what previewClick throws: document.querySelector rejects a selector that is
\* not CSS
PreviewThrown(s, selector) ==
    IF s \notin Live THEN SessionNotFound
    ELSE IF ~IsCss(selector) THEN DriverError
    ELSE ""

\* willNavigate of what previewClick returns when it does not throw
PreviewReturns(selector, doc) ==
    LET el == Locate(doc, selector)
    IN  el # NoNode /\ el.tag = "a" /\ el.href

PreviewClick(s, selector, doc) ==
    /\ (s \notin Live) => doc = <<>>
    /\ history' = IF s \notin Live THEN Rejected(history, s) ELSE history
    /\ UNCHANGED <<now, githubRepoPath, calls, users, issued, sessions, pageObjectRepository, poms, elements,
                   browsers>>

\* ------------------------------------------------------- page-originated events
\* page b can call window.__sendToBackend once injectOverlay has exposed it
PageCanSend(b) == browsers[b].page = "open" /\ browsers[b].exposed

OverlaySession(b) == browsers[b].sessionId

\* message type 'ta-element-mapped'
OverlayElementMapped(b, selector, name, doc, saveOk) ==
    /\ PageCanSend(b)
    /\ OverlaySession(b) \in Live
    /\ Len(elements) < MaxElements
    /\ LET mapped == mapNewElement(sessions, OverlaySession(b), selector, name, doc, saveOk)
       IN  /\ (mapped.id = NoId) => saveOk
           /\ sessions' = mapped.ss
           /\ poms' = mapped.poms
           /\ elements' = mapped.heap
    /\ UNCHANGED <<now, githubRepoPath, calls, users, issued, pageObjectRepository, browsers, history>>

\* the step of message type 'ta-action-recorded'
OverlayStep(selector, t) ==
    [id |-> <<"step", t>>, action |-> "click", elementId |-> NoId,
     elementName |-> NoName, selector |-> selector, value |-> NoValue,
     screenshot |-> <<>>, timestamp |-> t]

\* message type 'ta-action-recorded'
OverlayActionRecorded(b, selector) ==
    /\ PageCanSend(b)
    /\ OverlaySession(b) \in Live
    /\ sessions' = Record(sessions, OverlaySession(b), OverlayStep(selector, now))
    /\ history' = Performed(history, sessions, OverlaySession(b))
    /\ StepRoom
    /\ UNCHANGED <<now, githubRepoPath, calls, users, issued, pageObjectRepository, poms, elements, browsers>>

\* message types 'ta-recording-started' and 'ta-recording-stopped'
OverlayRecordingToggled(b, started) ==
    /\ PageCanSend(b)
    /\ OverlaySession(b) \in Live
    /\ sessions' = [sessions EXCEPT ![OverlaySession(b)].isRecording = started]
    /\ UNCHANGED <<now, githubRepoPath, calls, users, issued, pageObjectRepository, poms, elements, browsers,
                   history>>

\* the page of browser b navigates by itself (a link, a script, a redirect)
FrameNavigated(b, url) ==
    /\ browsers[b].page = "open"
    /\ browsers' = [browsers EXCEPT ![b].url = url]
    /\ sessions' = OnFrameNavigated(sessions, b, url, now)
    /\ history' = Performed(history, sessions, browsers[b].sessionId)
    /\ StepRoom
    /\ UNCHANGED <<now, githubRepoPath, calls, users, issued, pageObjectRepository, poms, elements>>

\* ------------------------------------------------------------ specification
Next ==
    \/ Tick
    \/ \E s \in SessionIds, failAt \in StartFailures : StartSession(s, failAt)
    \/ \E s \in SessionIds, url \in NavUrls, doc \in Documents, failAt \in NavigateFailures :
          NavigateAndAnalyze(s, url, doc, failAt)
    \/ \E s \in SessionIds : StartRecording(s)
    \/ \E s \in SessionIds : StopRecording(s)
    \/ \E s \in SessionIds, selector \in CallerSelectors, name \in CallerNames,
          doc \in Documents, after \in Documents, saveOk \in SaveOutcomes,
          shotOk \in BOOLEAN :
          ClickElement(s, selector, name, doc, after, saveOk, shotOk)
    \/ \E s \in SessionIds, selector \in CallerSelectors, name \in CallerNames,
          doc \in Documents, after \in Documents, saveOk \in SaveOutcomes,
          shotOk \in BOOLEAN :
          FillElement(s, selector, name, doc, after, saveOk, shotOk)
    \/ \E s \in SessionIds, selector \in CallerSelectors,
          name \in CallerNames \ {NoName}, doc \in Documents, saveOk \in SaveOutcomes :
          MapElement(s, selector, name, doc, saveOk)
    \/ \E s \in SessionIds, doc \in Documents :
          \E elementId \in KnownElementIds(s) \cup {UnknownElementId} :
             VerifyElementStability(s, elementId, doc)
    \/ \E s \in SessionIds, selector \in CallerSelectors, doc \in Documents :
          PreviewClick(s, selector, doc)
    \/ \E s \in SessionIds : EndSession(s)
    \/ \E b \in DOMAIN browsers, selector \in CallerSelectors,
          name \in CallerNames \ {NoName}, doc \in Documents, saveOk \in SaveOutcomes :
          OverlayElementMapped(b, selector, name, doc, saveOk)
    \/ \E b \in DOMAIN browsers, selector \in CallerSelectors :
          OverlayActionRecorded(b, selector)
    \/ \E b \in DOMAIN browsers, started \in BOOLEAN : OverlayRecordingToggled(b, started)
    \/ \E b \in DOMAIN browsers, url \in NavUrls : FrameNavigated(b, url)

Spec == Init /\ [][Next]_vars

\* ---------------------------------------------------------- recording window
\* C1: when stopRecording is called, the length of recordedSteps equals the
\* number of qualifying actions (click and fill calls that returned a step,
\* navigation events, actions the page reported) performed between the most
\* recent startRecording and that stopRecording, and no action after the
\* stopRecording changes it.
C1_StepsCountTheWindow ==
    \A s \in Live :
        history[s].window = "closed" =>
            Len(sessions[s].recordedSteps) = history[s].performed

\* C2: while isRecording is false, no operation or event other than
\* startRecording changes recordedSteps of the session: not clickElement,
\* fillElement, a framenavigated event, a 'ta-action-recorded' message,
\* navigateAndAnalyze nor mapNewElement.
C2_NoStepWhileDisarmed ==
    [][\A s \in Live \cap DOMAIN sessions' :
          (/\ ~sessions[s].isRecording
           /\ sessions'[s].browser = sessions[s].browser
           /\ ~StartRecording(s))
          => sessions'[s].recordedSteps = sessions[s].recordedSteps]_vars

\* a disarmed session that holds the steps of a closed window and on which a
\* qualifying action was performed since it was disarmed
C2_ActedWhileDisarmed ==
    \E s \in Live :
        /\ ~sessions[s].isRecording
        /\ history[s].window = "closed"
        /\ history[s].idle
        /\ sessions[s].recordedSteps # <<>>

\* C3: every startRecording on an existing session leaves recordedSteps empty
\* and isRecording true, whatever recordedSteps held before.
C3_StartRecordingResets ==
    [][\A s \in Live :
          StartRecording(s) =>
              /\ sessions'[s].recordedSteps = <<>>
              /\ sessions'[s].isRecording]_vars

\* startRecording was called on a session that was recording and held steps
C3_RestartedWithSteps ==
    \E s \in Live :
        /\ history[s].resets = "armed"
        /\ sessions[s].isRecording
        /\ sessions[s].recordedSteps = <<>>

\* ------------------------------------------------------------ ended sessions
\* a call of one of the session operations with the id s
CallWith(s) ==
    \/ StartRecording(s)
    \/ StopRecording(s)
    \/ \E url \in NavUrls, doc \in Documents, failAt \in NavigateFailures :
          NavigateAndAnalyze(s, url, doc, failAt)
    \/ \E selector \in CallerSelectors, name \in CallerNames, doc \in Documents,
          after \in Documents, saveOk \in SaveOutcomes, shotOk \in BOOLEAN :
          \/ ClickElement(s, selector, name, doc, after, saveOk, shotOk)
          \/ FillElement(s, selector, name, doc, after, saveOk, shotOk)
    \/ \E selector \in CallerSelectors, name \in CallerNames \ {NoName},
          doc \in Documents, saveOk \in SaveOutcomes :
          MapElement(s, selector, name, doc, saveOk)
    \/ \E doc \in Documents : VerifyElementStability(s, UnknownElementId, doc)
    \/ \E selector \in CallerSelectors, doc \in Documents : PreviewClick(s, selector, doc)

\* every session operation called with the id s fails with 'Session not found'
AllNotFound(s) ==
    /\ StartRecordingThrown(s) = SessionNotFound
    /\ StopRecordingThrown(s) = SessionNotFound
    /\ VerifyThrown(s) = SessionNotFound
    /\ \A failAt \in NavigateFailures : NavigateThrown(s, failAt) = SessionNotFound
    /\ \A selector \in CallerSelectors :
          /\ PreviewThrown(s, selector) = SessionNotFound
          /\ \A name \in CallerNames, doc \in Documents, saveOk \in BOOLEAN :
                /\ \A after \in Documents, shotOk \in BOOLEAN :
                      ActThrown(s, selector, name, doc, after, saveOk, shotOk)
                          = SessionNotFound
                /\ MapElementResponse(s, selector, name, doc, saveOk).status = 404
                /\ MapElementResponse(s, selector, name, doc, saveOk).error
                       = SessionNotFound

\* C4: once endSession has completed for an id, every later navigate, click,
\* fill, startRecording, stopRecording, previewClick, mapElement and
\* verifyStability call with the id fails with 'Session not found' and changes
\* no state, and the id is in the collection again only by a startSession.
C4_EndedIdIsRejected ==
    /\ [](\A s \in SessionIds : history[s].ended => (s \notin Live /\ AllNotFound(s)))
    /\ [][\A s \in SessionIds :
             history[s].ended =>
                 /\ CallWith(s) => UNCHANGED program
                 /\ (s \in DOMAIN sessions') => StartSession(s, "none")]_vars

\* a session operation was called with an id after endSession completed for it
C4_CalledAfterEnd ==
    \E s \in SessionIds :
        history[s].ended /\ history[s].rejected /\ s \notin Live

\* C5: a second endSession call on the same id is answered with a Not Found
\* error, not with a success result.
C5_SecondEndIsNotFound ==
    \A s \in SessionIds :
        history[s].ended =>
            /\ EndSessionResponse(s).status = 404
            /\ ~EndSessionResponse(s).success

\* C6: endSession on an existing session always closes its page, context and
\* browser and removes it from the collection, whatever was called before.
C6_EndSessionReleases ==
    \A s \in Live :
        LET b == sessions[s].browser
            out == EndSessionOutcome(s)
        IN  /\ s \notin DOMAIN out.sessions
            /\ out.browsers[b].page = "closed"
            /\ out.browsers[b].context = "closed"
            /\ out.browsers[b].browser = "closed"

\* ------------------------------------------------------- failed navigation
\* C7: a navigateAndAnalyze that fails at any of its steps leaves currentUrl,
\* currentPageObject and elementMappings of the session as they were.
C7_FailedNavigateKeepsSession ==
    [][\A s \in Live, url \in NavUrls, doc \in Documents,
          failAt \in NavigateFailures \ {"none"} :
          NavigateAndAnalyze(s, url, doc, failAt) =>
              /\ sessions'[s].currentUrl = sessions[s].currentUrl
              /\ sessions'[s].currentPageObject = sessions[s].currentPageObject
              /\ sessions'[s].elementMappings = sessions[s].elementMappings]_vars

\* ---------------------------------------------------------------- the store
\* every field of an element mapping but the time of its last verification
ElementContent(e) ==
    [id |-> e.id, name |-> e.name, selector |-> e.selector,
     alternativeSelectors |-> e.alternativeSelectors, type |-> e.type,
     attributes |-> e.attributes, text |-> e.text, isStable |-> e.isStable]

ElementsContent(pom, heap) ==
    [i \in DOMAIN pom.elements |-> ElementContent(heap[pom.elements[i]])]

\* the documents whose extractions are merged
MergeDocuments == SeqsUpTo({NodeGo, NodeField, NodeLink}, MaxNodes)

\* updatePageObjectModel applied to the stored POM p at t1 and again at t2, both
\* times with the extraction of doc
MergedTwice(p, doc, t1, t2) ==
    LET fresh == extractAllElements(doc, t1)
        first == updatePageObjectModel(poms[p], fresh, elements, t1)
    IN  [first |-> first,
         second |-> updatePageObjectModel(first.pom, fresh, first.heap, t2)]

\* C8: updatePageObjectModel applied twice in a row to the same POM with the
\* same fresh extraction leaves, after the second call, the elements content
\* the first call left, and each call increases version by exactly 1.
C8_MergeTwiceSameContent ==
    \A p \in DOMAIN poms, doc \in MergeDocuments, t2 \in now..MaxClock :
        LET m == MergedTwice(p, doc, now, t2)
        IN  /\ ElementsContent(m.second.pom, m.second.heap)
                   = ElementsContent(m.first.pom, m.first.heap)
            /\ m.first.pom.version = poms[p].version + 1
            /\ m.second.pom.version = m.first.pom.version + 1

\* a POM that a merge has updated and to which the extraction of some document
\* adds an element
C8_MergeAddsElement ==
    \E p \in DOMAIN poms, doc \in MergeDocuments :
        /\ poms[p].version > 1
        /\ poms[p].elements # <<>>
        /\ Len(MergedTwice(p, doc, now, now).first.pom.elements) > Len(poms[p].elements)

\* C9: a merge-update keeps every element the POM held before it, so the
\* number of elements never decreases, also when several of them share a
\* primary selector.
C9_MergeIsAdditive ==
    [][\A s \in Live, url \in NavUrls, doc \in Documents :
          (NavigateAndAnalyze(s, url, doc, "none") /\ findPageObjectByUrl(url) # NoPom)
          => LET p == findPageObjectByUrl(url)
             IN  /\ Range(poms[p].elements) \subseteq Range(poms'[p].elements)
                 /\ Len(poms'[p].elements) >= Len(poms[p].elements)]_vars

\* --------------------------------------------------------- a loaded store
\* A file of the page-objects directory, as savePageObjectModel wrote it
\* earlier: a POM that was created from a page without elements and merged once.
StoredPom(url, t) ==
    updatePageObjectModel(createPageObjectModel(url, <<>>, 1, t), <<>>, <<>>, t).pom

\* the directory holds one file per page name
StoredUrls ==
    {f \in SeqsUpTo(Urls, MaxPoms) :
        /\ f # <<>>
        /\ \A i, j \in DOMAIN f :
              i # j => generatePageName(f[i]) # generatePageName(f[j])}

\* a builder constructed with a repository path
InitStore ==
    /\ now = 0
    /\ githubRepoPath = "repo"
    /\ sessions = <<>>
    /\ pageObjectRepository = <<>>
    /\ poms = <<>>
    /\ elements = <<>>
    /\ browsers = <<>>
    /\ history = [s \in SessionIds |-> NoHistory]
    /\ calls = <<>>
    /\ users = <<>>
    /\ issued = {}

\* the loadPageObjectRepository that the constructor started completes, having
\* read the files of the POMs of the URLs f, written at the times -1, -2, ..
LoadPageObjectRepository(f) ==
    /\ poms = <<>>
    /\ poms' = [i \in DOMAIN f |-> StoredPom(f[i], 0 - i)]
    /\ pageObjectRepository' = loadPageObjectRepository(githubRepoPath, poms')
    /\ UNCHANGED <<now, githubRepoPath, calls, users, issued, sessions, elements, browsers, history>>

\* the documents of the pages a session of the loaded store navigates to
StoreDocuments == SeqsUpTo(DomKinds, 1)

NextStore ==
    \/ Tick
    \/ \E f \in StoredUrls : LoadPageObjectRepository(f)
    \/ \E s \in SessionIds, failAt \in StartFailures : StartSession(s, failAt)
    \/ \E s \in SessionIds, url \in Urls, doc \in StoreDocuments,
          failAt \in NavigateFailures :
          NavigateAndAnalyze(s, url, doc, failAt)

SpecStore == InitStore /\ [][NextStore]_vars

\* C10: findPageObjectByUrl(url) returns the POM whose url equals the argument
\* whenever one is stored; only when none is stored, the first POM whose
\* urlPattern matches; and nothing when neither exists.
C10_ExactUrlFirst ==
    \A url \in Urls :
        LET repo == pageObjectRepository
            exact == {i \in DOMAIN repo : poms[repo[i].val].url = url}
            matching == {i \in DOMAIN repo : RegExpTest(poms[repo[i].val].urlPattern, url)}
            found == findPageObjectByUrl(url)
        IN  IF exact # {} THEN found \in {repo[i].val : i \in exact}
            ELSE IF matching # {}
                 THEN found = repo[CHOOSE i \in matching : \A j \in matching : i <= j].val
            ELSE found = NoPom

\* ------------------------------------------------- pages of several URLs
\* A builder without a repository path whose sessions navigate to every URL
\* explored.
NextPages ==
    \/ Tick
    \/ \E s \in SessionIds, failAt \in StartFailures : StartSession(s, failAt)
    \/ \E s \in SessionIds, url \in Urls, doc \in StoreDocuments,
          failAt \in NavigateFailures :
          NavigateAndAnalyze(s, url, doc, failAt)
    \/ \E s \in SessionIds : EndSession(s)

SpecPages == Init /\ [][NextPages]_vars

\* a path segment made of digits only
IsNumeric(seg) == seg # <<>> /\ \A i \in DOMAIN seg : seg[i] \in Digits

\* the URLs u and v differ at most in the digits of their numeric path segments
SameButDigits(u, v) ==
    LET a == PathOf(u)
        b == PathOf(v)
    IN  /\ Len(a) = Len(b)
        /\ \A i \in DOMAIN a : a[i] = b[i] \/ (IsNumeric(a[i]) /\ IsNumeric(b[i]))

LongText == [i \in 1..MaxTextLen |-> "x"]

\* the elements a page puts before the extractor: buttons with a class and a
\* text, and text inputs, with and without id, test id, aria-label and name;
\* and a button that has only a long text
ResolverNodes ==
    {[tag |-> k[1], type |-> k[2], id |-> id, testid |-> testid, name |-> name,
      aria |-> aria, role |-> "", classes |-> k[3], text |-> k[4],
      href |-> FALSE, onclick |-> FALSE, rendered |-> TRUE] :
        k \in {<<"button", "", <<"btn">>, <<"G", "o">>>>,
               <<"input", "text", <<>>, <<>>>>},
        id \in {"", "go"}, testid \in {"", "t"}, name \in {"", "n"},
        aria \in {"", "email"}}
    \cup {[tag |-> "button", type |-> "", id |-> "", testid |-> "", name |-> "",
           aria |-> "", role |-> "", classes |-> <<>>, text |-> LongText,
           href |-> FALSE, onclick |-> FALSE, rendered |-> TRUE]}

\* a page holds one of them
ResolverDocuments == {<<n>> : n \in ResolverNodes}

NextExtract ==
    \/ Tick
    \/ \E s \in SessionIds, failAt \in StartFailures : StartSession(s, failAt)
    \/ \E s \in SessionIds, url \in NavUrls, doc \in ResolverDocuments,
          failAt \in NavigateFailures :
          NavigateAndAnalyze(s, url, doc, failAt)
    \/ \E s \in SessionIds : EndSession(s)

SpecExtract == Init /\ [][NextExtract]_vars

\* C12: every element the extractor found with a non-empty id has '#' followed
\* by that id as its primary selector, whatever its other attributes, text and
\* tag.
C12_IdIsPrimary ==
    \A e \in DOMAIN elements :
        elements[e].attributes.id # ""
        => elements[e].selector = SelId(elements[e].attributes.id)

\* an extracted button with id, test id, aria-label, name, class and text
C12_IdAmongOthers ==
    \E e \in DOMAIN elements :
        LET a == elements[e].attributes
        IN  /\ a.id # "" /\ a.testid # "" /\ a.aria # "" /\ a.name # ""
            /\ a.classes # <<>> /\ a.text # <<>>
            /\ elements[e].selector = SelId(a.id)


\* the selectors the stated order allows for an element without id: test id,
\* aria-label, name, text under 30 characters of a button or link, a class of
\* the element when one is unique, else the bare tag
RankedSelectors(a) ==
    IF a.testid # "" THEN {SelTestId(a.testid)}
    ELSE IF a.aria # "" THEN {SelAria(a.aria)}
    ELSE IF a.name # "" THEN {SelName(a.name)}
    ELSE IF a.text # <<>> /\ Len(a.text) < MaxTextLen /\ a.tag \in {"button", "a"}
         THEN {SelText(a.text)}
    ELSE {SelClass(c) : c \in Range(a.classes)} \cup {SelTag(a.tag)}

\* C13: an extracted element without id has the selector of the first rule
\* that applies in the order test id, aria-label, name, short text of a button
\* or link, unique class, bare tag; with aria-label and name and no test id it
\* has the aria-label selector.
C13_RankedWithoutId ==
    \A e \in DOMAIN elements :
        elements[e].attributes.id = ""
        => elements[e].selector \in RankedSelectors(elements[e].attributes)


\* ------------------------------------------------------- mapping on the fly
\* C14: clickElement or fillElement, called on a recording session with a name
\* and a selector that locates an element of the page and matches no
\* descriptor of the session, leaves a new descriptor with that name and
\* selector in elementMappings and in the current POM's elements, and appends
\* a step with that action, that name and the new descriptor's id.
C14_MapsAndRecords ==
    \A s \in Live, action \in {"click", "fill"}, selector \in CallerSelectors,
       name \in CallerNames \ {NoName}, doc \in Documents :
        ( /\ sessions[s].isRecording
          /\ Locate(doc, selector) # NoNode
          /\ MapsOnTheFly(s, selector, name) )
        => \A after \in {doc, <<>>} :
              LET mapped == mapNewElement(sessions, s, selector, name, after, TRUE)
                  step == ActReturns(s, action, selector,
                                     IF action = "fill" THEN FillValue ELSE NoValue,
                                     name, after, TRUE)
              IN  /\ ActThrown(s, selector, name, doc, after, TRUE, TRUE) = ""
                  /\ mapped.id # NoId
                  /\ MapHas(mapped.ss[s].elementMappings, mapped.id)
                  /\ mapped.heap[MapGet(mapped.ss[s].elementMappings, mapped.id)].name = name
                  /\ mapped.heap[MapGet(mapped.ss[s].elementMappings, mapped.id)].selector
                         = selector
                  /\ Record(mapped.ss, s, step)[s].recordedSteps
                         = Append(sessions[s].recordedSteps, step)
                  /\ step.action = action
                  /\ step.elementName = name
                  /\ step.elementId = mapped.id

\* ------------------------------------------------- pages that change
\* a node with the given tag and, or without, the text, aria-label and class
\* of the button of the page
Variant(tag, k) ==
    [tag |-> tag, type |-> "", id |-> "", testid |-> "", name |-> "",
     aria |-> IF k[2] THEN "email" ELSE "",
     role |-> IF tag = "button" THEN "button" ELSE "",
     classes |-> IF k[3] THEN <<"btn">> ELSE <<>>,
     text |-> IF k[1] THEN <<"G", "o">> ELSE <<>>,
     href |-> FALSE, onclick |-> FALSE, rendered |-> TRUE]

Flags == BOOLEAN \X BOOLEAN \X BOOLEAN

\* the page when an element is mapped: one button
MappedDocuments == {<<Variant("button", k)>> : k \in Flags}

\* the page when the element is verified: empty, the button without
\* attributes, or a div in its place
LiveDocuments ==
    {<<>>, <<Variant("button", <<FALSE, FALSE, FALSE>>)>>}
    \cup {<<Variant("div", k)>> : k \in Flags}

SubmitName == <<"s", "u", "b", "m", "i", "t">>

NextVerify ==
    \/ Tick
    \/ \E s \in SessionIds, failAt \in StartFailures : StartSession(s, failAt)
    \/ \E s \in SessionIds, doc \in MappedDocuments \cup {<<>>} :
          MapElement(s, SelTag("button"), SubmitName, doc, TRUE)
    \/ \E s \in SessionIds, doc \in LiveDocuments :
          \E elementId \in KnownElementIds(s) \cup {UnknownElementId} :
              VerifyElementStability(s, elementId, doc)
    \/ \E s \in SessionIds : EndSession(s)

SpecVerify == Init /\ [][NextVerify]_vars

C16_UnknownElementIsNotFound ==
    \A s \in Live, doc \in LiveDocuments :
        LET r == VerifyResponse(s, UnknownElementId, doc)
        IN  /\ ~r.success
            /\ \A other \in LiveDocuments : \A elementId \in KnownElementIds(s) :
                  ~VerifyReturns(s, elementId, other)
                  => VerifyResponse(s, elementId, other) # r


\* ---------------------------------------------------------- synthesized test
\* C17: the test source stopRecording returns has one statement per recorded
\* step, in order; a click or fill step whose elementId is the id of an element
\* of the current POM is a call of a page-object method, and one without
\* elementId, or whose elementId is no element of the current POM, is a raw
\* call with the selector.
C17_PomCallIffResolved ==
    \A s \in Live :
        StopRecordingThrown(s) = ""
        => LET steps == sessions[s].recordedSteps
               pom == sessions[s].currentPageObject
               body == StopRecordingReturns(s).body
               Resolves(step) ==
                   /\ pom # NoPom
                   /\ step.elementId # NoId
                   /\ \E e \in Range(poms[pom].elements) : elements[e].id = step.elementId
           IN  /\ Len(body) = Len(steps)
               /\ \A i \in DOMAIN steps :
                     steps[i].action \in {"click", "fill"}
                     => IF Resolves(steps[i])
                        THEN body[i][1] \in {"pom.click", "pom.fill"}
                        ELSE body[i][1] \in {"page.click", "page.fill"}
                             /\ body[i][2] = steps[i].selector


\* --------------------------------------------- navigations that interleave
\* navigateAndAnalyze is an async function: between its awaits the calls of
\* other sessions run.  Its synchronous stretches are the steps below; calls[s]
\* is the call of session s: the POM it found, what that POM held then (seen,
\* empty when none was found), where
\* the call stands, and the elements its merge added.
RaceIds == {"a", "b"}
RaceUrls == {Href(<<>>), Href(<<SegItems, Seg42>>), Href(<<SegItems, Seg99>>)}
RaceDocuments == SeqsUpTo({NodeGo, NodeField}, 1)
MaxRaceElements == 3

\* two sessions are started and an earlier navigation to /items/42 has stored
\* the POM of a page that showed doc
InitRace ==
    \E doc \in RaceDocuments :
        /\ now = 0
        /\ githubRepoPath = ""
        /\ browsers = <<LaunchedBrowser("a", "none"), LaunchedBrowser("b", "none")>>
        /\ sessions = [s \in RaceIds |-> NewSession(IF s = "a" THEN 1 ELSE 2)]
        /\ elements = extractAllElements(doc, 0)
        /\ poms = <<createPageObjectModel(Href(<<SegItems, Seg42>>), elements, 1, 0)>>
        /\ pageObjectRepository = MapSet(<<>>, poms[1].id, 1)
        /\ history = [s \in RaceIds |-> NoHistory]
        /\ calls = <<>>
        /\ users = <<>>
        /\ issued = {}

\* lines 133-143: goto, the overlay, and the lookup of the POM
NavigateBegins(s, url) ==
    /\ s \in Live
    /\ s \notin DOMAIN calls
    /\ LET found == findPageObjectByUrl(url)
       IN  calls' = (s :> [url |-> url, pom |-> found,
                           seen |-> IF found = NoPom THEN <<>> ELSE <<poms[found]>>,
                           at |-> "extract", added |-> {}]) @@ calls
    /\ sessions' = [OnFrameNavigated(sessions, sessions[s].browser, url, now)
                      EXCEPT ![s].currentUrl = url]
    /\ browsers' = [browsers EXCEPT ![sessions[s].browser].url = url,
                                    ![sessions[s].browser].exposed = TRUE]
    /\ history' = Performed(history, sessions, s)
    /\ UNCHANGED <<now, githubRepoPath, users, issued, pageObjectRepository, poms, elements>>

\* a merge that starts from what the POM held when it was found
MergedFromSeen(s, fresh) == updatePageObjectModel(calls[s].seen[1], fresh, elements, now)

\* lines 1174-1193: the merge reads the POM as it is when the extraction has
\* returned
Merged(s, fresh) == updatePageObjectModel(poms[calls[s].pom], fresh, elements, now)

\* the extraction returns, with the page showing doc: the merge of
\* updatePageObjectModel up to its save, or the object of createPageObjectModel
\* up to its screenshots
NavigateExtracts(s, doc) ==
    /\ s \in DOMAIN calls
    /\ calls[s].at = "extract"
    /\ \E fresh \in {extractAllElements(doc, now)} :
          IF calls[s].pom = NoPom
          THEN /\ Len(poms) < MaxPoms
               /\ Len(elements) + Len(fresh) <= MaxRaceElements
               /\ poms' = Append(poms, createPageObjectModel(calls[s].url, fresh,
                                                             Len(elements) + 1, now))
               /\ elements' = elements \o fresh
               /\ calls' = [calls EXCEPT ![s].pom = Len(poms) + 1, ![s].at = "shots"]
          ELSE \E updated \in {Merged(s, fresh)} :
                  /\ Len(updated.heap) <= MaxRaceElements
                  /\ poms' = [poms EXCEPT ![calls[s].pom] = updated.pom]
                  /\ elements' = updated.heap
                  /\ calls' = [calls EXCEPT
                                 ![s].at = "save",
                                 ![s].added = Range(updated.pom.elements)
                                                  \ Range(poms[calls[s].pom].elements)]
    /\ UNCHANGED <<now, githubRepoPath, users, issued, sessions, pageObjectRepository, browsers, history>>

\* lines 148-161: the screenshots or the save are done; a created POM is
\* stored, and the session takes the POM and its elements as they are now
NavigateReturns(s) ==
    /\ s \in DOMAIN calls
    /\ calls[s].at \in {"shots", "save"}
    /\ pageObjectRepository' =
           IF calls[s].at = "shots"
           THEN MapSet(pageObjectRepository, poms[calls[s].pom].id, calls[s].pom)
           ELSE pageObjectRepository
    /\ sessions' = [sessions EXCEPT
                      ![s].currentPageObject = calls[s].pom,
                      ![s].elementMappings =
                          MappingsOf(<<>>, poms[calls[s].pom].elements, elements)]
    /\ calls' = [calls EXCEPT ![s].at = "returned"]
    /\ UNCHANGED <<now, githubRepoPath, users, issued, poms, elements, browsers, history>>

NextRace ==
    \/ Tick
    \/ \E s \in RaceIds, url \in RaceUrls : NavigateBegins(s, url)
    \/ \E s \in RaceIds, doc \in RaceDocuments : NavigateExtracts(s, doc)
    \/ \E s \in RaceIds : NavigateReturns(s)

SpecRace == InitRace /\ [][NextRace]_vars

\* C18: when the navigations of two sessions found the same stored POM and
\* both have returned, the POM's version is 2 above the lower of the versions
\* they found, and its elements hold every element that either merge added.
C18_NoLostUpdate ==
    \A a, b \in DOMAIN calls :
        ( /\ a # b
          /\ calls[a].at = "returned" /\ calls[b].at = "returned"
          /\ calls[a].seen # <<>>
          /\ calls[b].seen # <<>>
          /\ calls[a].pom = calls[b].pom )
        => LET pom == poms[calls[a].pom]
               lower == IF calls[a].seen[1].version <= calls[b].seen[1].version
                        THEN calls[a].seen[1].version ELSE calls[b].seen[1].version
           IN  /\ pom.version = lower + 2
               /\ (calls[a].added \cup calls[b].added) \subseteq Range(pom.elements)

\* both navigations found the POM at the same version, each merge added an
\* element, and both have returned
C18_BothMergedConcurrently ==
    /\ DOMAIN calls = RaceIds
    /\ \A s \in RaceIds : calls[s].at = "returned" /\ calls[s].added # {}
    /\ calls["a"].seen # <<>> /\ calls["b"].seen # <<>>
    /\ calls["a"].pom = calls["b"].pom
    /\ calls["a"].seen[1].version = calls["b"].seen[1].version
    /\ calls["a"].added # calls["b"].added


\* ------------------------------------------------------- two sessions
\* the page of a session shows a button with text and aria-label, or a div
\* that kept the aria-label
PairDocuments == {<<Variant("button", <<TRUE, TRUE, FALSE>>)>>,
                  <<Variant("div", <<FALSE, TRUE, FALSE>>)>>}

\* an operation called with the session id s
OperationOn(s) ==
    \/ NavigateBegins(s, Href(<<SegItems, Seg42>>))
    \/ NavigateExtracts(s, <<>>)
    \/ NavigateReturns(s)
    \/ \E doc \in PairDocuments : MapElement(s, SelTag("button"), SubmitName, doc, TRUE)
    \/ \E doc \in PairDocuments : \E elementId \in KnownElementIds(s) :
          VerifyElementStability(s, elementId, doc)
    \/ StartRecording(s)
    \/ StopRecording(s)
    \/ EndSession(s)

NextPair == \E s \in RaceIds : OperationOn(s)

SpecPair == InitRace /\ [][NextPair]_vars

\* what session s holds: its recording flag, steps and URL, and for each id of
\* its elementMappings the descriptor's name and selectors
Held(ss, heap, s) ==
    [isRecording |-> ss[s].isRecording,
     recordedSteps |-> ss[s].recordedSteps,
     currentUrl |-> ss[s].currentUrl,
     elementMappings |->
         [i \in DOMAIN ss[s].elementMappings |->
            LET e == heap[ss[s].elementMappings[i].val]
            IN  [id |-> ss[s].elementMappings[i].key, name |-> e.name,
                 selector |-> e.selector,
                 alternativeSelectors |-> e.alternativeSelectors]]]

\* C19: an operation called with the id of one session leaves the recording
\* flag, the recorded steps, the current URL and the element mappings of every
\* other session as they were, also when both sessions have the same POM.
C19_SessionsAreIsolated ==
    [][\A a, b \in RaceIds :
          (a # b /\ b \in Live /\ OperationOn(a))
          => Held(sessions', elements', b) = Held(sessions, elements, b)]_vars


\* ------------------------------------------------------------ authentication
MaxUsers == 2
MinPasswordLength == 8

Emails == {"", "a@x", "b@x"}
Passwords == {<<>>, <<"a", "b", "c">>,
              <<"A", "b", "c", "d", "e", "f", "g", "1">>,
              <<"X", "y", "z", "w", "v", "u", "t", "2">>}

isStrongPassword(password) ==
    /\ Len(password) >= MinPasswordLength
    /\ \E i \in DOMAIN password : password[i] \in Uppers
    /\ \E i \in DOMAIN password : password[i] \in Lowers
    /\ \E i \in DOMAIN password : password[i] \in Digits

\* bcrypt.hash and bcrypt.compare
hashPassword(password) == <<"bcrypt", password>>
verifyPassword(password, hash) == hash[1] = "bcrypt" /\ hash[2] = password

\* the token generateToken draws for the user with this id
VerificationToken(id) == <<"token", id>>
NoToken == <<>>

\* SELECT .. FROM users WHERE email = $1
RowsByEmail(email) == {id \in DOMAIN users : users[id].email = email}

\* POST register: what it answers, row is the row it inserts
RegisterResponse(email, password, confirmPassword, mailOk) ==
    IF email = "" \/ password = <<>> \/ confirmPassword = <<>> THEN 400
    ELSE IF password # confirmPassword THEN 400
    ELSE IF ~isStrongPassword(password) THEN 400
    ELSE IF RowsByEmail(email) # {} THEN 409
    ELSE IF ~mailOk THEN 500
    ELSE 201

Register(email, password, confirmPassword, mailOk) ==
    /\ Len(users) < MaxUsers
    /\ \E status \in {RegisterResponse(email, password, confirmPassword, mailOk)} :
          /\ (status \in {400, 409}) => mailOk
          /\ users' = IF status \in {201, 500}
                      THEN Append(users,
                                  [id |-> Len(users) + 1, email |-> email,
                                   password_hash |-> hashPassword(password),
                                   email_verified |-> FALSE,
                                   email_verification_token |->
                                       VerificationToken(Len(users) + 1)])
                      ELSE users
          /\ issued' = IF status = 201
                       THEN issued \cup {[by |-> "register", id |-> Len(users) + 1,
                                          email |-> email, expiresIn |-> "7d"]}
                       ELSE issued
    /\ UNCHANGED <<now, githubRepoPath, sessions, pageObjectRepository, poms, elements,
                   browsers, history, calls>>

\* POST verify-email
VerifyEmail(token) ==
    /\ users' = [id \in DOMAIN users |->
                   IF token # NoToken /\ users[id].email_verification_token = token
                   THEN [users[id] EXCEPT !.email_verified = TRUE,
                                          !.email_verification_token = NoToken]
                   ELSE users[id]]
    /\ UNCHANGED <<now, githubRepoPath, sessions, pageObjectRepository, poms, elements,
                   browsers, history, calls, issued>>

\* POST login: the answer, and the payload of the JWT it signs
LoginResponse(email, password, rememberMe) ==
    IF email = "" \/ password = <<>>
    THEN [status |-> 400, error |-> "Email and password are required", token |-> {}]
    ELSE IF RowsByEmail(email) = {}
    THEN [status |-> 401, error |-> "Invalid email or password", token |-> {}]
    ELSE LET user == users[CHOOSE id \in RowsByEmail(email) : TRUE]
         IN  IF ~verifyPassword(password, user.password_hash)
             THEN [status |-> 401, error |-> "Invalid email or password", token |-> {}]
             ELSE [status |-> 200, error |-> "",
                   token |-> {[by |-> "login", id |-> user.id, email |-> user.email,
                               expiresIn |-> IF rememberMe THEN "30d" ELSE "7d"]}]

Login(email, password, rememberMe) ==
    /\ issued' = issued \cup LoginResponse(email, password, rememberMe).token
    /\ UNCHANGED <<now, githubRepoPath, sessions, pageObjectRepository, poms, elements,
                   browsers, history, calls, users>>

NextAuth ==
    \/ \E email \in Emails, password \in Passwords, confirmPassword \in Passwords,
          mailOk \in BOOLEAN : Register(email, password, confirmPassword, mailOk)
    \/ \E id \in 1..MaxUsers : VerifyEmail(VerificationToken(id))
    \/ \E email \in Emails, password \in Passwords, rememberMe \in BOOLEAN :
          Login(email, password, rememberMe)

SpecAuth == Init /\ [][NextAuth]_vars

\* C20: login with the correct password of an account whose email is not
\* verified is answered 403 'Please verify your email before logging in' and
\* signs no token; every token login has signed belongs to an account that is
\* verified.
C20_UnverifiedLoginRejected ==
    /\ \A id \in DOMAIN users, password \in Passwords, rememberMe \in BOOLEAN :
          (verifyPassword(password, users[id].password_hash) /\ ~users[id].email_verified)
          => LET r == LoginResponse(users[id].email, password, rememberMe)
             IN  /\ r.status = 403
                 /\ r.error = "Please verify your email before logging in"
                 /\ r.token = {}
    /\ \A t \in issued : t.by = "login" => users[t.id].email_verified

\* ----------------------------------------------------------- recording flag
\* C21: isRecording of a session changes value only as the effect of a
\* startRecording or stopRecording call on that session; no message from the
\* page, navigation or action call changes it.
C21_OnlyStartStopToggle ==
    [][\A s \in Live \cap DOMAIN sessions' :
          (/\ sessions'[s].browser = sessions[s].browser
           /\ sessions'[s].isRecording # sessions[s].isRecording)
          => (StartRecording(s) \/ StopRecording(s))]_vars

\* ------------------------------------------------ clickElement at its awaits
\* clickElement awaits page.click, then the screenshot, and pushes its step
\* last; the listeners of the page run at those awaits.  calls[s] is the
\* clickElement of session s:
\*   at:        "clicked" once page.click has resolved, "returned" at the end
\*   due:       the click made the page navigate and the framenavigated event
\*              was not delivered yet
\*   navStep:   the place in recordedSteps of the navigate step of that event
\*   clickStep: the place in recordedSteps of the click step, 0 when not pushed
MaxRecorded == 2

LinkSelector == SelTag("a")
ClickSelectors == CallerSelectors \cup {LinkSelector}
ClickDocuments == {<<NodeLink>>, <<NodeField>>}

\* no clickElement of session s is under way and no event of it is due
Quiet(s) ==
    IF s \in DOMAIN calls THEN calls[s].at = "returned" /\ ~calls[s].due ELSE TRUE

RecordedRoom == \A s \in DOMAIN sessions' : Len(sessions'[s].recordedSteps) <= MaxRecorded

\* lines 207-210: page.click(selector) on the page that shows doc has resolved;
\* a click on a link with an href starts a navigation
ClickBegins(s, selector, doc) ==
    /\ s \in Live
    /\ Quiet(s)
    /\ Locate(doc, selector) # NoNode
    /\ calls' = (s :> [selector |-> selector, at |-> "clicked",
                       due |-> PreviewReturns(selector, doc),
                       navStep |-> 0, clickStep |-> 0]) @@ calls
    /\ UNCHANGED <<now, githubRepoPath, users, issued, sessions, pageObjectRepository,
                   poms, elements, browsers, history>>

\* lines 1017-1031: the framenavigated event of the navigation the click started
ClickNavigates(s, url) ==
    /\ s \in Live
    /\ s \in DOMAIN calls
    /\ calls[s].due
    /\ sessions' = OnFrameNavigated(sessions, sessions[s].browser, url, now)
    /\ browsers' = [browsers EXCEPT ![sessions[s].browser].url = url]
    /\ calls' = [calls EXCEPT
                   ![s].due = FALSE,
                   ![s].navStep = IF sessions[s].isRecording
                                  THEN Len(sessions[s].recordedSteps) + 1 ELSE 0]
    /\ RecordedRoom
    /\ UNCHANGED <<now, githubRepoPath, users, issued, pageObjectRepository, poms,
                   elements, history>>

\* lines 213-236 of a call without elementName: the element id is looked up,
\* the screenshot is taken, the step is built and pushed
ClickReturns(s) ==
    /\ s \in Live
    /\ s \in DOMAIN calls
    /\ calls[s].at = "clicked"
    /\ sessions' = Record(sessions, s,
                          ActReturns(s, "click", calls[s].selector, NoValue, NoName,
                                     <<>>, TRUE))
    /\ calls' = [calls EXCEPT
                   ![s].at = "returned",
                   ![s].clickStep = IF sessions[s].isRecording
                                    THEN Len(sessions[s].recordedSteps) + 1 ELSE 0]
    /\ RecordedRoom
    /\ UNCHANGED <<now, githubRepoPath, users, issued, pageObjectRepository, poms,
                   elements, browsers, history>>

\* one caller, who awaits each call before the next, and the page's events
NextRecorder ==
    \/ Tick
    \/ \E s \in SessionIds : StartSession(s, "none")
    \/ \E s \in SessionIds, url \in NavUrls :
          Quiet(s) /\ NavigateAndAnalyze(s, url, <<>>, "none") /\ UNCHANGED calls
    \/ \E s \in SessionIds : s \in Live /\ Quiet(s) /\ StartRecording(s)
    \/ \E s \in SessionIds : s \in Live /\ Quiet(s) /\ StopRecording(s)
    \/ \E s \in SessionIds, selector \in ClickSelectors, doc \in ClickDocuments :
          ClickBegins(s, selector, doc)
    \/ \E s \in SessionIds, url \in NavUrls : ClickNavigates(s, url)
    \/ \E s \in SessionIds : ClickReturns(s)
    \/ \E b \in DOMAIN browsers, selector \in ClickSelectors :
          OverlayActionRecorded(b, selector)

SpecRecorder == Init /\ [][NextRecorder]_vars

\* C22: between two startRecording calls the recordedSteps of a session only
\* grows by appending at the end (no step is removed, replaced or reordered),
\* and the timestamps of consecutive steps are strictly increasing.
C22_AppendOnlyStrictlyOrdered ==
    /\ [](\A s \in Live :
             \A i \in 1..(Len(sessions[s].recordedSteps) - 1) :
                sessions[s].recordedSteps[i].timestamp
                    < sessions[s].recordedSteps[i + 1].timestamp)
    /\ [][\A s \in Live \cap DOMAIN sessions' :
             (sessions'[s].browser = sessions[s].browser /\ ~StartRecording(s))
             => /\ Len(sessions'[s].recordedSteps) >= Len(sessions[s].recordedSteps)
                /\ SubSeq(sessions'[s].recordedSteps, 1, Len(sessions[s].recordedSteps))
                       = sessions[s].recordedSteps]_vars

\* ------------------------------------------------------- element identities
\* the pages a session visits and maps elements on: empty, a field and a
\* link, two fields
IdDocuments == {<<>>, <<NodeField, NodeLink>>, <<NodeField, NodeField>>}
IdSelectors == {SelTag("input"), LinkSelector}
IdUrls == {Href(<<>>), Href(<<SegItems, Seg42>>)}

\* an extraction stamped its elements with the clock value t
ExtractedAt(t) ==
    \E i \in DOMAIN elements : Len(elements[i].id) = 3 /\ elements[i].id[2] = t

\* line 137: a navigation waits a second before it extracts, so the
\* extractions of one session's navigations are stamped with different times
NextIds ==
    \/ Tick
    \/ \E s \in SessionIds : StartSession(s, "none")
    \/ \E s \in SessionIds, url \in IdUrls, doc \in IdDocuments :
          ~ExtractedAt(now) /\ NavigateAndAnalyze(s, url, doc, "none")
    \/ \E s \in SessionIds, selector \in IdSelectors, name \in CallerNames \ {NoName},
          doc \in IdDocuments : MapElement(s, selector, name, doc, TRUE)
    \/ \E b \in DOMAIN browsers, selector \in IdSelectors, name \in CallerNames \ {NoName},
          doc \in IdDocuments : OverlayElementMapped(b, selector, name, doc, TRUE)

SpecIds == Init /\ [][NextIds]_vars

\* the elementMappings of session s of ss hold the elements of its current POM,
\* each under its id, and nothing else
HoldsItsPom(ss, objects, heap, s) ==
    LET m == ss[s].elementMappings
        refs == objects[ss[s].currentPageObject].elements
    IN  /\ \A i \in DOMAIN refs :
              /\ MapHas(m, heap[refs[i]].id)
              /\ MapGet(m, heap[refs[i]].id) = refs[i]
        /\ \A j \in DOMAIN m :
              /\ m[j].val \in Range(refs)
              /\ m[j].key = heap[m[j].val].id

\* C23: after every successful navigateAndAnalyze the elementMappings of the
\* session contain exactly the element descriptors of its current (created or
\* merged) POM, keyed by their ids: no entry of the page visited before
\* survives and no element of the POM is missing.
C23_MappingsAreThePom ==
    [][\A s \in Live, url \in IdUrls, doc \in IdDocuments :
          NavigateAndAnalyze(s, url, doc, "none")
          => HoldsItsPom(sessions', poms', elements', s)]_vars

\* C24: in every reachable state the element descriptors of one POM have
\* pairwise distinct ids, after any extractions, merges and mapNewElement
\* calls, two mappings within one clock tick included.
C24_IdsUniqueInPom ==
    \A p \in DOMAIN poms :
        \A i, j \in DOMAIN poms[p].elements :
            i # j => elements[poms[p].elements[i]].id # elements[poms[p].elements[j]].id

\* C25: in every reachable state the element descriptors of one POM have
\* pairwise distinct names: an extracted or newly mapped element whose name is
\* already used in the POM gets a suffixed name.
C25_NamesUniqueInPom ==
    \A p \in DOMAIN poms :
        \A i, j \in DOMAIN poms[p].elements :
            i # j => elements[poms[p].elements[i]].name
                         # elements[poms[p].elements[j]].name

\* ------------------------------------------------------- page-object class
\* generatePageObjectClass: the action methods the class of the POM defines,
\* each as <<verb, PascalCase name>> (navigate and isLoaded are always there)
generatePageObjectClass(pom) ==
    UNION {LET element == elements[pom.elements[i]]
               pascal == toPascalCase(element.name)
           IN  (IF element.type \in {"button", "link"} THEN {<<"click", pascal>>} ELSE {})
               \cup (IF element.type = "input"
                     THEN {<<"fill", pascal>>, <<"get", pascal \o <<"V", "a", "l", "u", "e">>>>}
                     ELSE {})
               \cup (IF element.type = "dropdown" THEN {<<"select", pascal>>} ELSE {})
               \cup (IF element.type \in {"checkbox", "radio"}
                     THEN {<<"check", pascal>>, <<"uncheck", pascal>>} ELSE {})
           : i \in DOMAIN pom.elements}

\* C26: every page-object method call of the generated test body (click<Name>()
\* or fill<Name>(value)) names a method that the class generated for the
\* session's current POM defines, whatever steps were recorded: steps without
\* elementName, steps on an element mapped on a page visited before, click
\* steps on an element that is neither button nor link.
C26_CalledMethodsAreDefined ==
    \A s \in Live :
        sessions[s].currentPageObject # NoPom =>
            LET body == StopRecordingReturns(s).body
                class == generatePageObjectClass(poms[sessions[s].currentPageObject])
            IN  \A i \in DOMAIN body :
                    /\ body[i][1] = "pom.click" => <<"click", body[i][3]>> \in class
                    /\ body[i][1] = "pom.fill" => <<"fill", body[i][3]>> \in class

\* ----------------------------------------------- navigations to a new URL
\* two sessions are started and the store is empty
InitNewUrl ==
    /\ now = 0
    /\ githubRepoPath = ""
    /\ browsers = <<LaunchedBrowser("a", "none"), LaunchedBrowser("b", "none")>>
    /\ sessions = [s \in RaceIds |-> NewSession(IF s = "a" THEN 1 ELSE 2)]
    /\ elements = <<>>
    /\ poms = <<>>
    /\ pageObjectRepository = <<>>
    /\ history = [s \in RaceIds |-> NoHistory]
    /\ calls = <<>>
    /\ users = <<>>
    /\ issued = {}

SpecNewUrl == InitNewUrl /\ [][NextRace]_vars

\* C27: a new POM is created only on navigation to a URL that no stored POM
\* matches, so the store never holds two POMs with the same url, after any
\* navigations, two sessions' concurrent navigations to one new URL included.
C27_OnePomPerUrl ==
    \A i, j \in DOMAIN pageObjectRepository :
        i # j => poms[pageObjectRepository[i].val].url
                     # poms[pageObjectRepository[j].val].url

\* ------------------------------------------------------ browser ownership
\* C28: in every reachable state every browser that was launched and is not
\* closed is owned by exactly one session of the sessions collection, also
\* when startSession failed after the launch and when startSession was called
\* with an id that is in the collection.
C28_OpenBrowserHasOwner ==
    \A b \in DOMAIN browsers :
        browsers[b].browser = "open"
        => Cardinality({s \in Live : sessions[s].browser = b}) = 1

\* -------------------------------------------------------- repeated toggle
\* C29: on a live session every startRecording can be followed by a
\* stopRecording that completes without error, sets isRecording to false and
\* returns the source generated from the steps of that window, the second and
\* later windows included.
C29_ToggleRepeats ==
    /\ [](\A s \in Live : history[s].window = "open" => StopRecordingThrown(s) = "")
    /\ [][\A s \in Live : StopRecording(s) => ~sessions'[s].isRecording]_vars

\* ------------------------------------------------------------ order of steps
\* C30: when a click performed through clickElement while recording makes the
\* page navigate, the click step is placed in recordedSteps before the
\* navigate step the click caused.
C30_ClickBeforeItsNavigation ==
    \A s \in DOMAIN calls :
        (calls[s].at = "returned" /\ calls[s].clickStep > 0 /\ calls[s].navStep > 0)
        => calls[s].clickStep < calls[s].navStep

====
